---------------------------- MODULE Spec2Model ----------------------------
(***************************************************************************)
(* Model of the geometry kernel (server/src/services/shapeGenerator.ts)    *)
(* and of the drawing engine (server/src/services/dxfEngine.ts) of the     *)
(* opencascade-configurator server.                                        *)
(*                                                                         *)
(* Numbers.  The kernel's mass properties are kept exact: a Real is        *)
(*     pi^p * (n + sn * sqrt(sa)) / d                                      *)
(* with integers n, sn, sa, d (d > 0), in lowest terms.  Ring and sphere   *)
(* vertices keep their angle symbolically, as a multiple of pi.            *)
(* The drawing engine computes with halves of its inputs only; its inputs  *)
(* are given in thousandths and its numbers are integers counting          *)
(* 1/2000, so that x/2 is exact and toFixed(3) has a digit to round.       *)
(* Ties are rounded on the exact decimal value (IEEE doubles may fall on   *)
(* either side of a tie).                                                  *)
(*                                                                         *)
(* Text.  A document is a sequence of lines; a line is a sequence of       *)
(* tokens whose concatenation is the line's text.  A literal or a string   *)
(* of the caller is one token; a formatted number is one token per         *)
(* character.  Strings of the caller hold no line break.                   *)
(***************************************************************************)
EXTENDS Integers, Sequences, FiniteSets, TLC

VARIABLES
    call,       \* the kernel function called last
    shape,      \* the argument of that call
    result,     \* what that call returned or threw
    config,     \* the argument of the last generateEngineeringDrawing call
    doc,        \* the document that call returned
    prevDoc,    \* the document the call before it returned for the same config
    now,        \* the day of the last call, in days since 2024-01-01
    requests,   \* the HTTP requests: body, handler position, response
    saved,      \* the documents of the Configuration collection
    files,      \* the output directory: who wrote model_<modelId>.*
    clock       \* what Date.now() returns, in milliseconds

vars == <<call, shape, result, config, doc, prevDoc, now, requests, saved, files, clock>>

geoVars == <<call, shape, result>>
drawVars == <<config, doc, prevDoc, now>>
ctrlVars == <<requests, saved, files, clock>>

(***************************************************************************)
(* Bounds                                                                  *)
(***************************************************************************)
MinDim == 1
MaxDim == 3
MaxDrawDim == 1
DrawStep == 5001
MaxDay == 1
MaxRequests == 2
MaxClock == 1

\* linear dimensions handed to the kernel (mm): -MinDim..MaxDim and 10, 20, 30
GeoDims == ((0 - MinDim)..MaxDim) \cup {10, 20, 30}

None == [none |-> TRUE]

(***************************************************************************)
(* Exact arithmetic                                                        *)
(***************************************************************************)
Abs(x) == IF x < 0 THEN 0 - x ELSE x

RECURSIVE GCD(_, _)
GCD(a, b) == IF b = 0 THEN a ELSE GCD(b, a % b)

\* pi^p * (n + sn * sqrt(sa)) / d in lowest terms, d > 0
MkReal(p, n, d, sn, sa) ==
    LET g0 == GCD(GCD(Abs(n), Abs(sn)), Abs(d))
        g == IF g0 = 0 THEN 1 ELSE g0
        s == IF d < 0 THEN 0 - 1 ELSE 1
    IN  [pi |-> IF n = 0 /\ (sn = 0 \/ sa = 0) THEN 0 ELSE p,
         n |-> s * (n \div g),
         d |-> IF n = 0 /\ (sn = 0 \/ sa = 0) THEN 1 ELSE Abs(d) \div g,
         sn |-> IF sn = 0 \/ sa = 0 THEN 0 ELSE s * (sn \div g),
         sa |-> IF sn = 0 \/ sa = 0 THEN 0 ELSE sa]

RealInt(n) == MkReal(0, n, 1, 0, 0)
RealRat(n, d) == MkReal(0, n, d, 0, 0)
RealPi(n, d) == MkReal(1, n, d, 0, 0)

\* (x / k) * m for integers k > 0 and m
RealScale(x, m, k) == MkReal(x.pi, x.n * m, x.d * k, x.sn * m, x.sa)

(***************************************************************************)
(* types/shapes.ts                                                         *)
(***************************************************************************)
ShapeTypes == {"box", "cylinder", "cone", "sphere"}

Steel == [name |-> "Steel", density |-> 7850]
Plastic == [name |-> "Plastic (ABS)", density |-> 1050]
MATERIALS == {Steel, Plastic}

HasMaterial(s) == "material" \in DOMAIN s

Undefined == [undefined |-> TRUE]

(***************************************************************************)
(* shapeGenerator.ts                                                       *)
(***************************************************************************)
\* weight = shape.material ? (volume / 1000000) * shape.material.density : undefined
WeightWrongUnit(s, volume) ==
    IF HasMaterial(s) THEN RealScale(volume, s.material.density, 1000)
    ELSE Undefined

Weight(s, volume) ==
    IF HasMaterial(s) THEN RealScale(volume, s.material.density, 1000000)
    ELSE Undefined

\* a coordinate: mag * product of the trigonometric factors, each
\* <<"cos" | "sin", k, m>> standing for cos or sin of (k / m) * pi
Coord(mag, trig) == [mag |-> mag, trig |-> trig]
Plain(mag) == Coord(mag, <<>>)
Half(x) == RealRat(x, 2)
NegHalf(x) == RealRat(0 - x, 2)

BoxVerticesFlat(width, height, depth) ==
    LET w == Half(width)
        h == Half(height)
        mw == NegHalf(width)
        mh == NegHalf(height)
    IN  << <<Plain(mw), Plain(mh), Plain(RealInt(0))>>,
           <<Plain(w), Plain(mh), Plain(RealInt(0))>>,
           <<Plain(w), Plain(h), Plain(RealInt(0))>>,
           <<Plain(mw), Plain(h), Plain(RealInt(0))>>,
           <<Plain(mw), Plain(mh), Plain(RealInt(0))>>,
           <<Plain(w), Plain(mh), Plain(RealInt(0))>>,
           <<Plain(w), Plain(h), Plain(RealInt(0))>>,
           <<Plain(mw), Plain(h), Plain(RealInt(0))>> >>

BoxVertices(width, height, depth) ==
    LET w == Half(width)
        h == Half(height)
        d == Half(depth)
        mw == NegHalf(width)
        mh == NegHalf(height)
        md == NegHalf(depth)
    IN  << <<Plain(mw), Plain(mh), Plain(md)>>,
           <<Plain(w), Plain(mh), Plain(md)>>,
           <<Plain(w), Plain(h), Plain(md)>>,
           <<Plain(mw), Plain(h), Plain(md)>>,
           <<Plain(mw), Plain(mh), Plain(d)>>,
           <<Plain(w), Plain(mh), Plain(d)>>,
           <<Plain(w), Plain(h), Plain(d)>>,
           <<Plain(mw), Plain(h), Plain(d)>> >>

BoxFaces ==
    << <<0, 1, 2, 3>>,
       <<4, 5, 6, 7>>,
       <<0, 1, 5, 4>>,
       <<2, 3, 7, 6>>,
       <<0, 3, 7, 4>>,
       <<1, 2, 6, 5>> >>

BoxEdgesWithDiagonal ==
    << <<0, 1>>, <<1, 2>>, <<2, 3>>, <<3, 0>>,
       <<4, 5>>, <<5, 6>>, <<6, 7>>, <<7, 4>>,
       <<0, 4>>, <<1, 5>>, <<2, 6>>, <<0, 2>> >>

BoxEdges ==
    << <<0, 1>>, <<1, 2>>, <<2, 3>>, <<3, 0>>,
       <<4, 5>>, <<5, 6>>, <<6, 7>>, <<7, 4>>,
       <<0, 4>>, <<1, 5>>, <<2, 6>>, <<3, 7>> >>

BoxVolume(width, height, depth) == RealInt(width * height * depth)

BoxSurfaceAreaOpen(width, height, depth) ==
    RealInt(2 * (width * height + width * depth) + height * depth)

BoxSurfaceArea(width, height, depth) ==
    RealInt(2 * (width * height + width * depth + height * depth))

Geometry(vertices, faces, edges, volume, surfaceArea, weight) ==
    [vertices |-> vertices, faces |-> faces, edges |-> edges,
     volume |-> volume, surfaceArea |-> surfaceArea, weight |-> weight]

generateBox(s) ==
    LET volume == BoxVolume(s.width, s.height, s.depth)
    IN  Geometry(BoxVertices(s.width, s.height, s.depth), BoxFaces, BoxEdges,
                 volume, BoxSurfaceArea(s.width, s.height, s.depth),
                 Weight(s, volume))

CylinderSegments == 32
ConeSegments == 32
SphereSegments == 16
SphereRings == 16

\* [cos(angle) * radius, y, sin(angle) * radius], angle = (i / segments) * 2 pi
RingVertex(radius, y, i, segments) ==
    << Coord(RealInt(radius), << <<"cos", 2 * i, segments>> >>),
       Plain(y),
       Coord(RealInt(radius), << <<"sin", 2 * i, segments>> >>) >>

CylinderVertices(radius, height) ==
    LET segments == CylinderSegments
    IN  [k \in 1..segments |-> RingVertex(radius, Half(height), k - 1, segments)]
        \o [k \in 1..segments |-> RingVertex(radius, NegHalf(height), k - 1, segments)]
        \o << <<Plain(RealInt(0)), Plain(Half(height)), Plain(RealInt(0))>>,
              <<Plain(RealInt(0)), Plain(NegHalf(height)), Plain(RealInt(0))>> >>

CylinderFacesAtOneCenter(i, segments) ==
    LET next == (i + 1) % segments
    IN  << <<i, next, next + segments, i + segments>>,
           <<i, next, segments * 2>>,
           <<i + segments, next + segments, segments * 2>> >>

\* the three faces pushed by iteration i of the face loop
CylinderFacesAt(i, segments) ==
    LET next == (i + 1) % segments
    IN  << <<i, next, next + segments, i + segments>>,
           <<i, next, segments * 2>>,
           <<i + segments, next + segments, segments * 2 + 1>> >>

CylinderFaces ==
    LET segments == CylinderSegments
    IN  [k \in 1..(3 * segments) |->
            CylinderFacesAt((k - 1) \div 3, segments)[((k - 1) % 3) + 1]]

CylinderEdgesAt(i, segments) ==
    LET next == (i + 1) % segments
    IN  << <<i, next>>,
           <<i + segments, next + segments>>,
           <<i, i + segments>> >>

CylinderEdges ==
    LET segments == CylinderSegments
    IN  [k \in 1..(3 * segments) |->
            CylinderEdgesAt((k - 1) \div 3, segments)[((k - 1) % 3) + 1]]

CylinderVolume(radius, height) == RealPi(radius * radius * height, 1)
CylinderSurfaceArea(radius, height) == RealPi(2 * radius * (radius + height), 1)

generateCylinder(s) ==
    LET volume == CylinderVolume(s.radius, s.height)
    IN  Geometry(CylinderVertices(s.radius, s.height), CylinderFaces, CylinderEdges,
                 volume, CylinderSurfaceArea(s.radius, s.height), Weight(s, volume))

ConeVertices(radius, height) ==
    LET segments == ConeSegments
    IN  [k \in 1..segments |-> RingVertex(radius, NegHalf(height), k - 1, segments)]
        \o << <<Plain(RealInt(0)), Plain(Half(height)), Plain(RealInt(0))>>,
              <<Plain(RealInt(0)), Plain(NegHalf(height)), Plain(RealInt(0))>> >>

ConeFacesAtApexOnly(i, segments) ==
    LET next == (i + 1) % segments
    IN  << <<i, next, segments>>,
           <<i, next, segments>> >>

ConeFacesAt(i, segments) ==
    LET next == (i + 1) % segments
    IN  << <<i, next, segments>>,
           <<i, next, segments + 1>> >>

ConeFaces ==
    LET segments == ConeSegments
    IN  [k \in 1..(2 * segments) |->
            ConeFacesAt((k - 1) \div 2, segments)[((k - 1) % 2) + 1]]

ConeEdgesAt(i, segments) ==
    LET next == (i + 1) % segments
    IN  << <<i, next>>,
           <<i, segments>> >>

ConeEdges ==
    LET segments == ConeSegments
    IN  [k \in 1..(2 * segments) |->
            ConeEdgesAt((k - 1) \div 2, segments)[((k - 1) % 2) + 1]]

ConeVolumeOfCylinder(radius, height) == RealPi(radius * radius * height, 1)

ConeVolume(radius, height) == RealPi(radius * radius * height, 3)

\* pi * radius * (radius + sqrt(radius^2 + height^2))
ConeSurfaceArea(radius, height) ==
    MkReal(1, radius * radius, 1, radius, radius * radius + height * height)

generateCone(s) ==
    LET volume == ConeVolume(s.radius, s.height)
    IN  Geometry(ConeVertices(s.radius, s.height), ConeFaces, ConeEdges,
                 volume, ConeSurfaceArea(s.radius, s.height), Weight(s, volume))

\* phi = (i / rings) * pi, theta = (j / segments) * 2 pi
SphereVertex(radius, i, j) ==
    << Coord(RealInt(radius),
             << <<"sin", i, SphereRings>>, <<"cos", 2 * j, SphereSegments>> >>),
       Coord(RealInt(radius), << <<"cos", i, SphereRings>> >>),
       Coord(RealInt(radius),
             << <<"sin", i, SphereRings>>, <<"sin", 2 * j, SphereSegments>> >>) >>

\* for (i = 0; i <= rings; i++) for (j = 0; j <= segments; j++)
SphereVertices(radius) ==
    [k \in 1..((SphereRings + 1) * (SphereSegments + 1)) |->
        SphereVertex(radius, (k - 1) \div (SphereSegments + 1),
                     (k - 1) % (SphereSegments + 1))]

SphereFaceTooFar(i, j) ==
    LET a == i * (SphereSegments + 1) + j
        b == a + SphereSegments + 1
    IN  <<a, b, b + SphereSegments + 1, a + 1>>

SphereFace(i, j) ==
    LET a == i * (SphereSegments + 1) + j
        b == a + SphereSegments + 1
    IN  <<a, b, b + 1, a + 1>>

\* for (i = 0; i < rings; i++) for (j = 0; j < segments; j++)
SphereFaces ==
    [k \in 1..(SphereRings * SphereSegments) |->
        SphereFace((k - 1) \div SphereSegments, (k - 1) % SphereSegments)]

SphereEdgesAt(i, j) ==
    LET a == i * (SphereSegments + 1) + j
        b == a + SphereSegments + 1
    IN  << <<a, a + 1>>, <<a, b>> >>

SphereEdges ==
    [k \in 1..(2 * SphereRings * SphereSegments) |->
        SphereEdgesAt(((k - 1) \div 2) \div SphereSegments,
                      ((k - 1) \div 2) % SphereSegments)[((k - 1) % 2) + 1]]

SphereVolume(radius) == RealPi(4 * radius * radius * radius, 3)
SphereSurfaceArea(radius) == RealPi(4 * radius * radius, 1)

generateSphere(s) ==
    LET volume == SphereVolume(s.radius)
    IN  Geometry(SphereVertices(s.radius), SphereFaces, SphereEdges,
                 volume, SphereSurfaceArea(s.radius), Weight(s, volume))

(***************************************************************************)
(* modelService.ts                                                         *)
(***************************************************************************)
BoxModelVertices(width, height, depth) ==
    LET w == Half(width)
        h == Half(height)
        d == Half(depth)
        mw == NegHalf(width)
        mh == NegHalf(height)
        md == NegHalf(depth)
    IN  << <<Plain(mw), Plain(mh), Plain(md)>>,
           <<Plain(w), Plain(mh), Plain(md)>>,
           <<Plain(w), Plain(h), Plain(md)>>,
           <<Plain(mw), Plain(h), Plain(md)>>,
           <<Plain(mw), Plain(mh), Plain(d)>>,
           <<Plain(w), Plain(mh), Plain(d)>>,
           <<Plain(w), Plain(h), Plain(d)>>,
           <<Plain(mw), Plain(h), Plain(d)>> >>

BoxModelFaces ==
    << <<0, 1, 2, 3>>,
       <<4, 5, 6, 7>>,
       <<0, 1, 5, 4>>,
       <<2, 3, 7, 6>>,
       <<0, 3, 7, 4>>,
       <<1, 2, 6, 5>> >>

BoxModelEdges ==
    << <<0, 1>>, <<1, 2>>, <<2, 3>>, <<3, 0>>,
       <<4, 5>>, <<5, 6>>, <<6, 7>>, <<7, 4>>,
       <<0, 4>>, <<1, 5>>, <<2, 6>>, <<3, 7>> >>

generateBoxModel(width, height, depth) ==
    [vertices |-> BoxModelVertices(width, height, depth),
     faces |-> BoxModelFaces,
     edges |-> BoxModelEdges,
     dimensions |-> [width |-> width, height |-> height, depth |-> depth]]

Returned(v) == [threw |-> FALSE, value |-> v]
Threw(msg) == [threw |-> TRUE, error |-> msg]

generateShapeAsCylinder(s) ==
    CASE s.type = "box" -> Returned(generateBox(s))
      [] s.type = "cylinder" -> Returned(generateCylinder(s))
      [] s.type = "cone" -> Returned(generateCone(s))
      [] s.type = "sphere" -> Returned(generateSphere(s))
      [] OTHER -> Returned(generateCylinder(s))

generateShape(s) ==
    CASE s.type = "box" -> Returned(generateBox(s))
      [] s.type = "cylinder" -> Returned(generateCylinder(s))
      [] s.type = "cone" -> Returned(generateCone(s))
      [] s.type = "sphere" -> Returned(generateSphere(s))
      [] OTHER -> Threw("Unknown shape type")

(***************************************************************************)
(* The kernel's callers: any Shape value, with or without a material, and  *)
(* a value whose tag is outside the union.                                 *)
(***************************************************************************)
WithMaterial(S) == S \cup {s @@ [material |-> m] : s \in S, m \in MATERIALS}

BoxShapes ==
    {[type |-> "box", width |-> w, height |-> h, depth |-> d] :
        w \in GeoDims, h \in GeoDims, d \in GeoDims}

RoundShapes ==
    {[type |-> t, radius |-> r, height |-> h] :
        t \in {"cylinder", "cone", "torus"}, r \in GeoDims, h \in GeoDims}

SphereShapes == {[type |-> "sphere", radius |-> r] : r \in GeoDims}

ShapeInputs == WithMaterial(BoxShapes \cup RoundShapes \cup SphereShapes)

GeoInit ==
    /\ call = "none"
    /\ shape = None
    /\ result = None

\* a call is made when no result is pending; the kernel is a pure function
CallGenerateShape ==
    /\ call = "none"
    /\ \E s \in ShapeInputs :
        /\ call' = "generateShape"
        /\ shape' = s
        /\ result' = generateShape(s)
    /\ UNCHANGED <<drawVars, ctrlVars>>

CallGenerateBoxModel ==
    /\ call = "none"
    /\ \E w \in GeoDims, h \in GeoDims, d \in GeoDims :
        /\ call' = "generateBoxModel"
        /\ shape' = [width |-> w, height |-> h, depth |-> d]
        /\ result' = Returned(generateBoxModel(w, h, d))
    /\ UNCHANGED <<drawVars, ctrlVars>>

\* the caller consumes the result: a mesh is built per request and dropped
DiscardGeometry ==
    /\ call # "none"
    /\ call' = "none"
    /\ shape' = None
    /\ result' = None
    /\ UNCHANGED <<drawVars, ctrlVars>>

GeoNext == CallGenerateShape \/ CallGenerateBoxModel \/ DiscardGeometry


(***************************************************************************)
(* dxfEngine.ts: numbers and their text                                    *)
(***************************************************************************)
\* drawing numbers count 1/2000; U(n) is the integer literal n
UnitsPerOne == 2 * 1000
U(n) == n * UnitsPerOne
FromThousandths(k) == 2 * k
HalfOf(x) == x \div 2

DigitChar(d) == <<"0", "1", "2", "3", "4", "5", "6", "7", "8", "9">>[d + 1]

RECURSIVE Digits(_)
Digits(n) == IF n < 10 THEN <<DigitChar(n)>> ELSE Digits(n \div 10) \o <<DigitChar(n % 10)>>

\* Number.prototype.toFixed(3): the sign of a negative number, the integer
\* digits, a point and three digits, the nearest thousandth (a tie upwards
\* in magnitude)
ToFixed3Truncating(x) ==
    LET a == Abs(x)
        n == a \div 2
        f == n % 1000
    IN  (IF x < 0 THEN <<"-">> ELSE <<>>)
        \o Digits(n \div 1000) \o <<".">> \o Digits(f)

ToFixed3(x) ==
    LET a == Abs(x)
        n == (a + 1) \div 2
        f == n % 1000
    IN  (IF x < 0 THEN <<"-">> ELSE <<>>)
        \o Digits(n \div 1000) \o <<".">>
        \o <<DigitChar(f \div 100), DigitChar((f \div 10) % 10), DigitChar(f % 10)>>

RECURSIVE TrimZeros(_)
TrimZeros(ds) ==
    IF ds # <<>> /\ ds[Len(ds)] = "0" THEN TrimZeros(SubSeq(ds, 1, Len(ds) - 1)) ELSE ds

\* String(x) of a template literal: the shortest decimal, no trailing zeros
NumberToString(x) ==
    LET a == Abs(x)
        t == (a % UnitsPerOne) * 5
        frac == TrimZeros(<<DigitChar(t \div 1000), DigitChar((t \div 100) % 10),
                            DigitChar((t \div 10) % 10), DigitChar(t % 10)>>)
    IN  (IF x < 0 THEN <<"-">> ELSE <<>>)
        \o Digits(a \div UnitsPerOne)
        \o (IF frac = <<>> THEN <<>> ELSE <<".">> \o frac)

\* the lines of a template literal whose lines are all literal text
Lits(ss) == [k \in DOMAIN ss |-> <<ss[k]>>]

RECURSIVE Flatten(_)
Flatten(parts) == IF parts = <<>> THEN <<>> ELSE Head(parts) \o Flatten(Tail(parts))

(***************************************************************************)
(* dxfEngine.ts: class DXFEngine                                           *)
(***************************************************************************)
Layer(name, color, lineType) == [name |-> name, color |-> color, lineType |-> lineType]

layersWithoutHidden ==
    << Layer("DIMENSIONS", 1, "CONTINUOUS"),
       Layer("GEOMETRY", 7, "CONTINUOUS"),
       Layer("CENTERLINES", 4, "CENTER"),
       Layer("TEXT", 3, "CONTINUOUS"),
       Layer("TITLEBLOCK", 2, "CONTINUOUS") >>

layers ==
    << Layer("DIMENSIONS", 1, "CONTINUOUS"),
       Layer("GEOMETRY", 7, "CONTINUOUS"),
       Layer("CENTERLINES", 4, "CENTER"),
       Layer("HIDDEN", 8, "HIDDEN"),
       Layer("TEXT", 3, "CONTINUOUS"),
       Layer("TITLEBLOCK", 2, "CONTINUOUS") >>

\* new Date().toISOString().split("T")[0] on day d
IsoDate(d) ==
    CASE d = 0 -> "2024-01-01"
      [] d = 1 -> "2024-01-02"
      [] d = 2 -> "2024-01-03"
      [] d = 3 -> "2024-01-04"
      [] OTHER -> "2024-01-05"

Has(c, key) == key \in DOMAIN c

\* a || b on an optional string, and on an optional number
OrString(c, key, default) == IF Has(c, key) /\ c[key] # "" THEN c[key] ELSE default
OrNumber(c, key, default) == IF Has(c, key) /\ c[key] # 0 THEN c[key] ELSE default

ConstructorWebAuthor(c, today) ==
    [width |-> c.width, height |-> c.height, depth |-> c.depth,
     modelName |-> OrString(c, "modelName", "Parametric Box"),
     author |-> OrString(c, "author", "Web Configurator"),
     date |-> OrString(c, "date", IsoDate(today)),
     units |-> OrString(c, "units", "mm"),
     scale |-> OrNumber(c, "scale", U(1))]

Constructor(c, today) ==
    [width |-> c.width, height |-> c.height, depth |-> c.depth,
     modelName |-> OrString(c, "modelName", "Parametric Box"),
     author |-> OrString(c, "author", "Configurator"),
     date |-> OrString(c, "date", IsoDate(today)),
     units |-> OrString(c, "units", "mm"),
     scale |-> OrNumber(c, "scale", U(1))]

generateHeader ==
    Lits(<<"0", "SECTION", "2", "HEADER", "9", "$ACADVER", "1", "AC1015",
           "9", "$INSUNITS", "70", "4", "9", "$MEASUREMENT", "70", "1",
           "0", "ENDSEC">>)

LayerRecord(layer) ==
    << <<"0">>, <<"LAYER">>, <<"2">>, <<layer.name>>, <<"70">>, <<"0">>,
       <<"62">>, Digits(layer.color), <<"6">>, <<layer.lineType>> >>

generateTables ==
    Lits(<<"0", "SECTION", "2", "TABLES", "0", "TABLE", "2", "LTYPE", "70">>)
    \o <<Digits(Len(layers))>>
    \o Lits(<<"0", "LTYPE", "2", "CONTINUOUS", "70", "0", "3", "Solid line",
              "72", "65", "73", "0", "40", "0.0",
              "0", "LTYPE", "2", "CENTER", "70", "0", "3",
              "Center ____ _ ____ _ ____ _ ____ _ ____ _",
              "72", "65", "73", "4", "40", "2.0",
              "49", "1.25", "49", "-0.25", "49", "0.25", "49", "-0.25",
              "0", "LTYPE", "2", "HIDDEN", "70", "0", "3",
              "Hidden __ __ __ __ __ __ __ __ __ __ __ __",
              "72", "65", "73", "2", "40", "0.375", "49", "0.25", "49", "-0.125">>)
    \o Lits(<<"0", "ENDTAB", "0", "TABLE", "2", "LAYER", "70">>)
    \o <<Digits(Len(layers))>>
    \o Flatten([k \in DOMAIN layers |-> LayerRecord(layers[k])])
    \o Lits(<<"0", "ENDTAB", "0", "ENDSEC">>)

generateBlocks == Lits(<<"0", "SECTION", "2", "BLOCKS", "0", "ENDSEC">>)

\* the literal 0.0 of the z fields
ZeroLiteral == <<"0", ".", "0">>

drawLine(x1, y1, x2, y2, layer) ==
    << <<"0">>, <<"LINE">>, <<"8">>, <<layer>>,
       <<"10">>, ToFixed3(x1), <<"20">>, ToFixed3(y1), <<"30">>, ZeroLiteral,
       <<"11">>, ToFixed3(x2), <<"21">>, ToFixed3(y2), <<"31">>, ZeroLiteral >>

drawTextOnLayer0(text, x, y, height, layer) ==
    << <<"0">>, <<"TEXT">>, <<"8">>, <<"0">>,
       <<"10">>, ToFixed3(x), <<"20">>, ToFixed3(y), <<"30">>, ZeroLiteral,
       <<"40">>, NumberToString(height), <<"1">>, text >>

\* text is the payload's line; height is a number
drawText(text, x, y, height, layer) ==
    << <<"0">>, <<"TEXT">>, <<"8">>, <<layer>>,
       <<"10">>, ToFixed3(x), <<"20">>, ToFixed3(y), <<"30">>, ZeroLiteral,
       <<"40">>, NumberToString(height), <<"1">>, text >>

drawRectangleSkipDegenerate(x, y, w, h, layer) ==
    IF w <= 0 \/ h <= 0 THEN <<>>
    ELSE drawLine(x, y, x + w, y, layer)
         \o drawLine(x + w, y, x + w, y + h, layer)
         \o drawLine(x + w, y + h, x, y + h, layer)
         \o drawLine(x, y + h, x, y, layer)

drawRectangleOpen(x, y, w, h, layer) ==
    drawLine(x, y, x + w, y, layer)
    \o drawLine(x + w, y, x + w, y + h, layer)
    \o drawLine(x + w, y + h, x, y + h, layer)
    \o drawLine(x, y + h, x + w, y, layer)

drawRectangle(x, y, w, h, layer) ==
    drawLine(x, y, x + w, y, layer)
    \o drawLine(x + w, y, x + w, y + h, layer)
    \o drawLine(x + w, y + h, x, y + h, layer)
    \o drawLine(x, y + h, x, y, layer)

drawHorizontalDimensionHalfLine(x, y, length, text, layer) ==
    drawLine(x, y, x + HalfOf(length), y, layer)
    \o drawLine(x, y - U(5), x, y + U(5), layer)
    \o drawLine(x + length, y - U(5), x + length, y + U(5), layer)
    \o drawLine(x, y, x + U(5), y + U(2), layer)
    \o drawLine(x, y, x + U(5), y - U(2), layer)
    \o drawLine(x + length, y, x + length - U(5), y + U(2), layer)
    \o drawLine(x + length, y, x + length - U(5), y - U(2), layer)
    \o drawText(text, x + HalfOf(length) - U(5), y + U(3), HalfOf(U(5)), layer)

drawHorizontalDimension(x, y, length, text, layer) ==
    drawLine(x, y, x + length, y, layer)
    \o drawLine(x, y - U(5), x, y + U(5), layer)
    \o drawLine(x + length, y - U(5), x + length, y + U(5), layer)
    \o drawLine(x, y, x + U(5), y + U(2), layer)
    \o drawLine(x, y, x + U(5), y - U(2), layer)
    \o drawLine(x + length, y, x + length - U(5), y + U(2), layer)
    \o drawLine(x + length, y, x + length - U(5), y - U(2), layer)
    \o drawText(text, x + HalfOf(length) - U(5), y + U(3), HalfOf(U(5)), layer)

drawVerticalDimension(x, y, length, text, layer) ==
    drawLine(x, y, x, y + length, layer)
    \o drawLine(x - U(5), y, x + U(5), y, layer)
    \o drawLine(x - U(5), y + length, x + U(5), y + length, layer)
    \o drawLine(x, y, x + U(2), y + U(5), layer)
    \o drawLine(x, y, x - U(2), y + U(5), layer)
    \o drawLine(x, y + length, x + U(2), y + length - U(5), layer)
    \o drawLine(x, y + length, x - U(2), y + length - U(5), layer)
    \o drawText(text, x + U(5), y + HalfOf(length), HalfOf(U(5)), layer)

drawTitleBlock(c) ==
    LET x == U(250)
        y == U(0 - 150)
        w == U(150)
        h == U(80)
    IN  drawRectangle(x, y, w, h, "TITLEBLOCK")
        \o drawLine(x, y + U(20), x + w, y + U(20), "TITLEBLOCK")
        \o drawLine(x, y + U(40), x + w, y + U(40), "TITLEBLOCK")
        \o drawLine(x, y + U(60), x + w, y + U(60), "TITLEBLOCK")
        \o drawLine(x + U(50), y, x + U(50), y + U(60), "TITLEBLOCK")
        \o drawText(<<"TITLE:">>, x + U(5), y + h - U(15), U(3), "TEXT")
        \o drawText(<<c.modelName>>, x + U(55), y + h - U(15), U(4), "TEXT")
        \o drawText(<<"AUTHOR:">>, x + U(5), y + h - U(35), U(3), "TEXT")
        \o drawText(<<c.author>>, x + U(55), y + h - U(35), U(3), "TEXT")
        \o drawText(<<"DATE:">>, x + U(5), y + h - U(55), U(3), "TEXT")
        \o drawText(<<c.date>>, x + U(55), y + h - U(55), U(3), "TEXT")
        \o drawText(<<"SCALE:">>, x + U(5), y + h - U(75), U(3), "TEXT")
        \o drawText(<<"1:">> \o NumberToString(c.scale), x + U(55), y + h - U(75), U(3), "TEXT")

drawFrontView(c) ==
    LET width == c.width
        height == c.height
        x == HalfOf(0 - width)
        y == HalfOf(height) + U(50)
    IN  drawText(<<"FRONT VIEW">>, x + HalfOf(width) - U(20), y + U(20), U(4), "TEXT")
        \o drawRectangle(x, y - height, width, height, "GEOMETRY")
        \o drawLine(x + HalfOf(width), y - height - U(10),
                    x + HalfOf(width), y + U(10), "CENTERLINES")
        \o drawLine(x - U(10), y - HalfOf(height),
                    x + width + U(10), y - HalfOf(height), "CENTERLINES")
        \o drawHorizontalDimension(x, y - height - U(30), width,
                                   NumberToString(width), "DIMENSIONS")
        \o drawVerticalDimension(x - U(30), y - height, height,
                                 NumberToString(height), "DIMENSIONS")

drawTopViewBelowFront(c) ==
    LET width == c.width
        depth == c.depth
        x == HalfOf(0 - width)
        y == U(0) - HalfOf(c.height) - depth
    IN  drawText(<<"TOP VIEW">>, x + HalfOf(width) - U(15), y + depth + U(20), U(4), "TEXT")
        \o drawRectangle(x, y, width, depth, "GEOMETRY")
        \o drawLine(x + HalfOf(width), y - U(10),
                    x + HalfOf(width), y + depth + U(10), "CENTERLINES")
        \o drawLine(x - U(10), y + HalfOf(depth),
                    x + width + U(10), y + HalfOf(depth), "CENTERLINES")
        \o drawHorizontalDimension(x, y - U(30), width,
                                   NumberToString(width), "DIMENSIONS")
        \o drawVerticalDimension(x + width + U(20), y, depth,
                                 NumberToString(depth), "DIMENSIONS")

drawTopView(c) ==
    LET width == c.width
        depth == c.depth
        x == HalfOf(0 - width)
        y == U(0 - 50)
    IN  drawText(<<"TOP VIEW">>, x + HalfOf(width) - U(15), y + depth + U(20), U(4), "TEXT")
        \o drawRectangle(x, y, width, depth, "GEOMETRY")
        \o drawLine(x + HalfOf(width), y - U(10),
                    x + HalfOf(width), y + depth + U(10), "CENTERLINES")
        \o drawLine(x - U(10), y + HalfOf(depth),
                    x + width + U(10), y + HalfOf(depth), "CENTERLINES")
        \o drawHorizontalDimension(x, y - U(30), width,
                                   NumberToString(width), "DIMENSIONS")
        \o drawVerticalDimension(x + width + U(20), y, depth,
                                 NumberToString(depth), "DIMENSIONS")

drawSideViewHeightDimension(c) ==
    LET depth == c.depth
        height == c.height
        x == U(150)
        y == HalfOf(height) + U(50)
    IN  drawText(<<"SIDE VIEW">>, x + HalfOf(depth) - U(15), y + U(20), U(4), "TEXT")
        \o drawRectangle(x, y - height, depth, height, "GEOMETRY")
        \o drawLine(x + HalfOf(depth), y - height - U(10),
                    x + HalfOf(depth), y + U(10), "CENTERLINES")
        \o drawLine(x - U(10), y - HalfOf(height),
                    x + depth + U(10), y - HalfOf(height), "CENTERLINES")
        \o drawHorizontalDimension(x, y - height - U(30), depth,
                                   NumberToString(height), "DIMENSIONS")

drawSideViewBesideFront(c) ==
    LET depth == c.depth
        height == c.height
        x == HalfOf(c.width) + U(150)
        y == HalfOf(height) + U(50)
    IN  drawText(<<"SIDE VIEW">>, x + HalfOf(depth) - U(15), y + U(20), U(4), "TEXT")
        \o drawRectangle(x, y - height, depth, height, "GEOMETRY")
        \o drawLine(x + HalfOf(depth), y - height - U(10),
                    x + HalfOf(depth), y + U(10), "CENTERLINES")
        \o drawLine(x - U(10), y - HalfOf(height),
                    x + depth + U(10), y - HalfOf(height), "CENTERLINES")
        \o drawHorizontalDimension(x, y - height - U(30), depth,
                                   NumberToString(depth), "DIMENSIONS")

drawSideView(c) ==
    LET depth == c.depth
        height == c.height
        x == U(150)
        y == HalfOf(height) + U(50)
    IN  drawText(<<"SIDE VIEW">>, x + HalfOf(depth) - U(15), y + U(20), U(4), "TEXT")
        \o drawRectangle(x, y - height, depth, height, "GEOMETRY")
        \o drawLine(x + HalfOf(depth), y - height - U(10),
                    x + HalfOf(depth), y + U(10), "CENTERLINES")
        \o drawLine(x - U(10), y - HalfOf(height),
                    x + depth + U(10), y - HalfOf(height), "CENTERLINES")
        \o drawHorizontalDimension(x, y - height - U(30), depth,
                                   NumberToString(depth), "DIMENSIONS")

drawIsometricGuide ==
    LET x == U(150)
        y == U(0 - 50)
    IN  drawText(<<"3D VIEW:">>, x, y - U(20), U(3), "TEXT")
        \o drawText(<<"See web interface">>, x, y - U(30), HalfOf(U(5)), "TEXT")
        \o drawText(<<"for interactive 3D">>, x, y - U(38), HalfOf(U(5)), "TEXT")

generateEntities(c) ==
    Lits(<<"0", "SECTION", "2", "ENTITIES">>)
    \o drawTitleBlock(c)
    \o drawFrontView(c)
    \o drawTopView(c)
    \o drawSideView(c)
    \o drawIsometricGuide
    \o Lits(<<"0", "ENDSEC">>)

generateFooter == Lits(<<"0", "EOF">>)

generateBlocksFirst(c) ==
    generateHeader
    \o generateBlocks
    \o generateTables
    \o generateEntities(c)
    \o generateFooter

generate(c) ==
    generateHeader
    \o generateTables
    \o generateBlocks
    \o generateEntities(c)
    \o generateFooter

generateEngineeringDrawing(cfg, today) == generate(Constructor(cfg, today))

(***************************************************************************)
(* The engine's callers: any DrawingConfig.  Dimensions are multiples of   *)
(* DrawStep thousandths from -DrawStep on, zero included; the optional     *)
(* fields are absent, empty (or 0), or given.  Time passes between calls.  *)
(***************************************************************************)
DrawDims == {FromThousandths(k * DrawStep) : k \in (0 - 1)..MaxDrawDim}

Dimensions(w, h, d) == [width |-> w, height |-> h, depth |-> d]

SmallBoxes == {Dimensions(w, h, d) : w \in DrawDims, h \in DrawDims, d \in DrawDims}

SpecBox == Dimensions(U(10), U(20), U(30))
CubeBox == Dimensions(U(100), U(100), U(100))
WideBox == Dimensions(U(400), U(100), U(100))
NegativeBox == Dimensions(U(0 - 3), U(7), U(0))

\* the records with field key absent or set to one of vals
Optional(key, vals) == {<<>>} \cup {key :> v : v \in vals}

Credits == {<<>>, [author |-> "A", units |-> "mm"]}

Metadata ==
    {m @@ d @@ s @@ a :
        m \in Optional("modelName", {"", "T"}),
        d \in Optional("date", {"", "2024-01-01"}),
        s \in Optional("scale", {0, U(2)}),
        a \in Credits}

Configs == SmallBoxes \cup {CubeBox, WideBox, NegativeBox} \cup {SpecBox @@ m : m \in Metadata}

Render ==
    /\ config = None
    /\ \E c \in Configs, t \in now..MaxDay :
        /\ config' = c
        /\ now' = t
        /\ doc' = generateEngineeringDrawing(c, t)
    /\ prevDoc' = None
    /\ UNCHANGED <<geoVars, ctrlVars>>

\* a second call with the identical config
RenderAgain ==
    /\ config # None
    /\ prevDoc = None
    /\ prevDoc' = doc
    /\ \E t \in now..MaxDay :
        /\ now' = t
        /\ doc' = generateEngineeringDrawing(config, t)
    /\ UNCHANGED <<config, geoVars, ctrlVars>>

\* the caller consumes the document
DiscardDrawing ==
    /\ config # None
    /\ config' = None
    /\ doc' = <<>>
    /\ prevDoc' = None
    /\ UNCHANGED <<now, geoVars, ctrlVars>>

DrawNext == Render \/ RenderAgain \/ DiscardDrawing

(***************************************************************************)
(* Specifications                                                          *)
(***************************************************************************)
DrawInit ==
    /\ config = None
    /\ doc = <<>>
    /\ prevDoc = None
    /\ now = 0

(***************************************************************************)
(* The request handlers (geometryController.ts, app.ts)                    *)
(*                                                                         *)
(* A handler runs from the request to its first await in one step, and     *)
(* from the settling of an await to the next await or to the response in   *)
(* one step; the handlers of different requests interleave at the awaits.  *)
(* Requests are numbered in the order they arrive.  A body is a JSON       *)
(* object: a function from its keys to numbers, strings or objects.  The   *)
(* documents of the collection carry the request that created them as      *)
(* their identity.                                                         *)
(***************************************************************************)
RequestIds == 1..MaxRequests

\* Date.now().toString() for each value of the clock
ModelIds == {ToString(c) : c \in 0..MaxClock}

\* !o[key] is false for a number: the key is present and its value is not 0
Truthy(o, key) == Has(o, key) /\ o[key] # 0

Without(o, key) == [k \in DOMAIN o \ {key} |-> o[k]]

\* o with one of its numbers missing, zero or negative
Spoiled(o) ==
    UNION {{Without(o, key), [o EXCEPT ![key] = 0], [o EXCEPT ![key] = 0 - MinDim]} :
              key \in DOMAIN o \ {"type"}}

GoodBox == Dimensions(MinDim, MinDim, MinDim)

GoodShapes ==
    {[type |-> "box"] @@ GoodBox,
     [type |-> "cylinder", radius |-> MinDim, height |-> MinDim],
     [type |-> "cone", radius |-> MinDim, height |-> MinDim],
     [type |-> "sphere", radius |-> MinDim]}

Shapes ==
    GoodShapes \cup UNION {Spoiled(s) : s \in GoodShapes}
        \cup {[type |-> "pyramid"], [width |-> MinDim]}

Saving == [name |-> "part", saveConfig |-> TRUE]

\* every shape and no shape with the configuration to be saved, and a box
\* without
GenerateBodies ==
    {Saving, [shape |-> [type |-> "box"] @@ GoodBox]}
        \cup {[shape |-> x] @@ Saving : x \in Shapes}

ExportBodies == {GoodBox} \cup Spoiled(GoodBox)

\* :format as drawn here: a kernel format, dxf, and one the handler does not
\* know; stl takes the path of step, and pdf is not drawn
Formats == {"step", "dxf", "obj"}

\* a request nobody has sent yet
Idle ==
    [pc |-> "idle", route |-> "none", format |-> "none", body |-> <<>>,
     calls |-> <<>>, modelId |-> "", status |-> 0, success |-> FALSE,
     sent |-> <<>>]

\* res.status(status).json(...) or res.send(...); success is the response's
\* success field, or whether a file was sent where the response has none
Respond(rq, status, success, sent) ==
    [rq EXCEPT !.pc = "done", !.status = status, !.success = success,
               !.sent = sent]

Calling(rq, fn) == [rq EXCEPT !.calls = Append(@, fn)]

BoxOf(o) == <<o.width, o.height, o.depth>>

ShapeValidationPresenceOnly(body) ==
    IF ~Has(body, "shape") \/ ~Has(body.shape, "type") \/ body.shape.type = ""
    THEN "Missing shape parameter"
    ELSE LET s == body.shape
         IN  CASE s.type = "box" ->
                    IF ~Truthy(s, "width") \/ ~Truthy(s, "height") \/ ~Truthy(s, "depth")
                    THEN "Box requires width, height, depth"
                    ELSE "none"
               [] s.type \in {"cylinder", "cone"} ->
                    IF ~Truthy(s, "radius") \/ ~Truthy(s, "height")
                    THEN s.type \o " requires radius and height"
                    ELSE "none"
               [] s.type = "sphere" ->
                    IF ~Truthy(s, "radius") THEN "Sphere requires radius" ELSE "none"
               [] OTHER -> "none"

\* generateModel's validation: the error it answers with, "none" if it passes
ShapeValidation(body) ==
    IF ~Has(body, "shape") \/ ~Has(body.shape, "type") \/ body.shape.type = ""
    THEN "Missing shape parameter"
    ELSE LET s == body.shape
         IN  CASE s.type = "box" ->
                    IF ~Truthy(s, "width") \/ ~Truthy(s, "height") \/ ~Truthy(s, "depth")
                    THEN "Box requires width, height, depth"
                    ELSE IF s.width <= 0 \/ s.height <= 0 \/ s.depth <= 0
                    THEN "Dimensions must be positive"
                    ELSE "none"
               [] s.type \in {"cylinder", "cone"} ->
                    IF ~Truthy(s, "radius") \/ ~Truthy(s, "height")
                    THEN s.type \o " requires radius and height"
                    ELSE IF s.radius <= 0 \/ s.height <= 0
                    THEN "Dimensions must be positive"
                    ELSE "none"
               [] s.type = "sphere" ->
                    IF ~Truthy(s, "radius") THEN "Sphere requires radius"
                    ELSE IF s.radius <= 0 THEN "Radius must be positive"
                    ELSE "none"
               [] OTHER -> "none"

\* generateModel from the reading of the clock on: the kernel service for a
\* box, the answer at once for the other shapes
generateFiles(rq, time) ==
    LET stamped == [rq EXCEPT !.modelId = ToString(time)]
    IN  IF rq.body.shape.type = "box"
        THEN [Calling(stamped, <<"openCascadeService.generateModel">> \o BoxOf(rq.body.shape))
                EXCEPT !.pc = "kernel"]
        ELSE Respond(stamped, 200, TRUE, <<"Generated with Three.js">>)

\* generateModel up to its first await or its response; the mesh that
\* generateShape returns goes into the response and is modelled above
generateModel(rq, time) ==
    LET body == rq.body
        error == ShapeValidation(body)
        meshed == Calling(rq, <<"generateShape">>)
    IN  IF error # "none" THEN Respond(rq, 400, FALSE, <<error>>)
        ELSE LET modelData == generateShape(body.shape)
             IN  IF modelData.threw
                 THEN Respond(meshed, 500, FALSE, <<modelData.error>>)
                 ELSE IF Has(body, "saveConfig") /\ body.saveConfig
                            /\ Has(body, "name") /\ body.name # ""
                 THEN [Calling(meshed, <<"Configuration.create">>) EXCEPT !.pc = "saving"]
                 ELSE generateFiles(meshed, time)

\* what the kernel service resolves to: the files written, the fallback
\* without files, or success false
KernelResults ==
    {[success |-> TRUE, written |-> TRUE], [success |-> TRUE, written |-> FALSE],
     [success |-> FALSE, written |-> FALSE]}

exportToDXF(width, height, depth) ==
    generateEngineeringDrawing(
        [width |-> U(width), height |-> U(height), depth |-> U(depth),
         author |-> "Web Configurator", units |-> "mm", scale |-> U(1)], now)

\* exportModel up to its first await or its response
exportModel(rq, time) ==
    LET body == rq.body
        stamped == [rq EXCEPT !.modelId = ToString(time)]
    IN  IF ~Truthy(body, "width") \/ ~Truthy(body, "height") \/ ~Truthy(body, "depth")
        THEN Respond(rq, 400, FALSE, <<"Missing parameters: width, height, depth required">>)
        ELSE CASE rq.format \in {"step", "stl"} ->
                    [Calling(stamped, <<"openCascadeService.exportModel">> \o BoxOf(body))
                        EXCEPT !.pc = "kernel"]
               [] rq.format = "dxf" ->
                    Respond(Calling(stamped, <<"exportToDXF">> \o BoxOf(body)), 200, TRUE,
                            exportToDXF(body.width, body.height, body.depth))
               [] OTHER -> Respond(stamped, 400, FALSE, <<"Unsupported format">>)

\* the legacy route POST /api/export/dxf
legacyExportDxf(rq) ==
    LET body == rq.body
    IN  IF ~Truthy(body, "width") \/ ~Truthy(body, "height") \/ ~Truthy(body, "depth")
        THEN Respond(rq, 400, FALSE, <<"Missing parameters: width, height, depth required">>)
        ELSE Respond(Calling(rq, <<"exportToDXF">> \o BoxOf(body)), 200, TRUE,
                     exportToDXF(body.width, body.height, body.depth))

CtrlInit ==
    /\ requests = [r \in RequestIds |-> Idle]
    /\ saved = {}
    /\ files = [id \in ModelIds |-> 0]
    /\ clock = 0

Arrives(r) ==
    /\ requests[r].pc = "idle"
    /\ \A q \in 1..(r - 1) : requests[q].pc # "idle"

PostGenerate(r) ==
    /\ Arrives(r)
    /\ \E body \in GenerateBodies :
        requests' = [requests EXCEPT ![r] =
                        generateModel([@ EXCEPT !.route = "generate", !.body = body], clock)]
    /\ UNCHANGED <<saved, files, clock, geoVars, drawVars>>

\* Configuration.create resolves, or rejects and the handler goes on
SaveSettles(r) ==
    /\ requests[r].pc = "saving"
    /\ \E stored \in BOOLEAN :
        saved' = IF stored
                 THEN saved \cup {[by |-> r, name |-> requests[r].body.name,
                                    modelType |-> requests[r].body.shape.type,
                                    parameters |-> requests[r].body.shape]}
                 ELSE saved
    /\ requests' = [requests EXCEPT ![r] = generateFiles(@, clock)]
    /\ UNCHANGED <<files, clock, geoVars, drawVars>>

\* openCascadeService.generateModel resolves in generateModel
GenerateKernelSettles(r) ==
    /\ requests[r].pc = "kernel"
    /\ requests[r].route = "generate"
    /\ \E settled \in KernelResults :
        /\ files' = IF settled.written THEN [files EXCEPT ![requests[r].modelId] = r]
                    ELSE files
        /\ requests' = [requests EXCEPT ![r] =
                IF settled.success
                THEN Respond(@, 200, TRUE, <<"files", settled.written>>)
                ELSE Respond(@, 500, FALSE, <<"Failed to generate model">>)]
    /\ UNCHANGED <<saved, clock, geoVars, drawVars>>

\* openCascadeService.exportModel resolves to a path, to null, or rejects
ExportKernelSettles(r) ==
    /\ requests[r].pc = "kernel"
    /\ requests[r].route = "export"
    /\ \E settled \in KernelResults :
        /\ files' = IF settled.written THEN [files EXCEPT ![requests[r].modelId] = r]
                    ELSE files
        /\ requests' = [requests EXCEPT ![r] =
                IF ~settled.success
                THEN Respond(@, 500, FALSE, <<"Failed to generate model">>)
                ELSE IF ~settled.written
                THEN Respond(@, 500, FALSE, <<"export not available">>)
                ELSE [@ EXCEPT !.pc = "reading"]]
    /\ UNCHANGED <<saved, clock, geoVars, drawVars>>

\* fs.readFile resolves to what model_<modelId> holds by now
ReadSettles(r) ==
    /\ requests[r].pc = "reading"
    /\ requests' = [requests EXCEPT ![r] =
            Respond(@, 200, TRUE, <<"file", files[requests[r].modelId]>>)]
    /\ UNCHANGED <<saved, files, clock, geoVars, drawVars>>

PostExport(r) ==
    /\ Arrives(r)
    /\ \E body \in ExportBodies, format \in Formats :
        requests' = [requests EXCEPT ![r] =
            exportModel([@ EXCEPT !.route = "export", !.format = format, !.body = body],
                        clock)]
    /\ UNCHANGED <<saved, files, clock, geoVars, drawVars>>

PostLegacyExport(r) ==
    /\ Arrives(r)
    /\ \E body \in ExportBodies :
        requests' = [requests EXCEPT ![r] =
            legacyExportDxf([@ EXCEPT !.route = "legacy", !.format = "dxf", !.body = body])]
    /\ UNCHANGED <<saved, files, clock, geoVars, drawVars>>

\* a millisecond passes
Tick ==
    /\ clock < MaxClock
    /\ clock' = clock + 1
    /\ UNCHANGED <<requests, saved, files, geoVars, drawVars>>

GenerateNext ==
    \/ \E r \in RequestIds : PostGenerate(r)
    \/ \E r \in RequestIds : SaveSettles(r)
    \/ \E r \in RequestIds : GenerateKernelSettles(r)

CtrlNext ==
    \/ GenerateNext
    \/ \E r \in RequestIds : PostExport(r)
    \/ \E r \in RequestIds : PostLegacyExport(r)
    \/ \E r \in RequestIds : ExportKernelSettles(r)
    \/ \E r \in RequestIds : ReadSettles(r)
    \/ Tick

Init == GeoInit /\ DrawInit /\ CtrlInit

Next == GeoNext \/ DrawNext \/ CtrlNext

Spec == Init /\ [][Next]_vars

SpecGeometry == Init /\ [][GeoNext]_vars

SpecDrawing == Init /\ [][DrawNext]_vars

SpecGenerate == Init /\ [][GenerateNext]_vars

SpecController == Init /\ [][CtrlNext]_vars

(***************************************************************************)
(* Claims about the geometry kernel                                        *)
(***************************************************************************)
CalledShape == call = "generateShape" /\ shape.type \in ShapeTypes

\* the required linear dimensions of a shape
RequiredDims(s) ==
    CASE s.type = "box" -> {s.width, s.height, s.depth}
      [] s.type \in {"cylinder", "cone"} -> {s.radius, s.height}
      [] s.type = "sphere" -> {s.radius}
      [] OTHER -> {}

AllPositive(s) == \A x \in RequiredDims(s) : x > 0

Range(f) == {f[k] : k \in DOMAIN f}

\* C1: generateShape fails, returning no mesh and no mass properties,
\* whenever a required linear dimension of the shape is zero or negative.
C1_InvalidDimensionRejected ==
    (CalledShape /\ ~AllPositive(shape)) => result.threw

\* C2: for every shape type and all positive dimensions the vertices
\* sequence is non-empty and every index that appears in a face or an edge
\* is an integer i with 0 <= i < vertices.length.
C2_IndicesInRange ==
    (CalledShape /\ AllPositive(shape)) =>
        /\ ~result.threw
        /\ Len(result.value.vertices) > 0
        /\ \A f \in Range(result.value.faces) \cup Range(result.value.edges) :
            \A i \in Range(f) : i \in 0..(Len(result.value.vertices) - 1)

\* every shape type reaches the last vertex from a face
C2_Witness ==
    /\ CalledShape /\ AllPositive(shape)
    /\ shape.type = "sphere"
    /\ ~result.threw
    /\ \E f \in Range(result.value.faces) :
        Len(result.value.vertices) - 1 \in Range(f)

\* C3: for every box with positive integer width w, height h and depth d,
\* volume = w*h*d and surfaceArea = 2*(w*h + w*d + h*d) exactly; 10 x 20 x 30
\* gives volume 6000 and surfaceArea 2200.
C3_BoxMassExact ==
    (CalledShape /\ shape.type = "box" /\ AllPositive(shape)) =>
        LET w == shape.width
            h == shape.height
            d == shape.depth
            v == result.value.volume
            a == result.value.surfaceArea
        IN  /\ ~result.threw
            /\ v.pi = 0 /\ v.sn = 0 /\ v.d = 1 /\ v.n = w * h * d
            /\ a.pi = 0 /\ a.sn = 0 /\ a.d = 1
            /\ a.n = 2 * w * h + 2 * w * d + 2 * h * d
            /\ (w = 10 /\ h = 20 /\ d = 30) => (v.n = 6000 /\ a.n = 2200)

C3_Witness ==
    /\ CalledShape /\ shape.type = "box"
    /\ shape.width = 10 /\ shape.height = 20 /\ shape.depth = 30
    /\ ~result.threw
    /\ result.value.volume.n = 6000
    /\ result.value.surfaceArea.n = 2200

\* the 8 sign combinations (+-w/2, +-h/2, +-d/2)
Corners(w, h, d) ==
    {<<Plain(RealRat(sx * w, 2)), Plain(RealRat(sy * h, 2)), Plain(RealRat(sz * d, 2))>> :
        sx \in {0 - 1, 1}, sy \in {0 - 1, 1}, sz \in {0 - 1, 1}}

BoxCall ==
    \/ CalledShape /\ shape.type = "box"
    \/ call = "generateBoxModel"

\* C4: for every box with positive width, height and depth the mesh has
\* exactly 8 vertices, the 8 distinct sign combinations (+-w/2, +-h/2, +-d/2),
\* exactly 6 faces of 4 indices each and exactly 12 edges, whatever the
\* dimensions and the material (generateBox and generateBoxModel alike).
C4_BoxMeshShape ==
    (BoxCall /\ shape.width > 0 /\ shape.height > 0 /\ shape.depth > 0) =>
        /\ ~result.threw
        /\ Len(result.value.vertices) = 8
        /\ Range(result.value.vertices) = Corners(shape.width, shape.height, shape.depth)
        /\ Cardinality(Range(result.value.vertices)) = 8
        /\ Len(result.value.faces) = 6
        /\ \A f \in Range(result.value.faces) : Len(f) = 4
        /\ Len(result.value.edges) = 12

C4_Witness ==
    /\ CalledShape /\ shape.type = "box" /\ HasMaterial(shape)
    /\ shape.width = 1 /\ shape.height = 2 /\ shape.depth = 3
    /\ ~result.threw
    /\ Len(result.value.vertices) = 8

\* C5: for every shape type the result's weight is present if and only if
\* the shape carries a material, and then equals
\* (volume / 1000000) * material.density; a shape without a material is
\* generated successfully, its weight absent.
C5_WeightIffMaterial ==
    CalledShape =>
        LET v == result.value.volume
            g == result.value.weight
        IN  /\ ~result.threw
            /\ (g # Undefined) <=> HasMaterial(shape)
            /\ HasMaterial(shape) =>
                \* g = (v / 1000000) * density, as fractions in lowest terms
                LET num == v.n * shape.material.density
                    den == v.d * 1000000
                    k == GCD(Abs(num), den)
                IN  /\ g.d > 0
                    /\ g.n = num \div k /\ g.d = den \div k
                    /\ g.sn = 0 /\ v.sn = 0
                    /\ (g.n # 0) => (g.pi = v.pi)

C5_Witness ==
    /\ CalledShape /\ shape.type = "cylinder" /\ HasMaterial(shape)
    /\ AllPositive(shape)
    /\ ~result.threw
    /\ result.value.weight # Undefined
    /\ result.value.weight.n > 0

Called(type) == CalledShape /\ shape.type = type /\ AllPositive(shape)

\* a and b are neighbours on the ring of n vertices that starts at index base
RingAdjacent(a, b, base, n) ==
    /\ a \in base..(base + n - 1)
    /\ b \in base..(base + n - 1)
    /\ (b - a + n) % n = 1 \/ (a - b + n) % n = 1

\* the pairs of neighbours on that ring, and each pair with a third vertex
\* or with its counterparts on the ring that starts at index other
AdjacentPairs(base, n) == {{base + a, base + ((a + 1) % n)} : a \in 0..(n - 1)}
FanAround(centre, base, n) == {pair \cup {centre} : pair \in AdjacentPairs(base, n)}
Between(base, other, n) ==
    {pair \cup {a - base + other : a \in pair} : pair \in AdjacentPairs(base, n)}

CylinderSideQuads == Between(0, 32, 32)
CylinderCapTriangles == FanAround(64, 0, 32) \cup FanAround(65, 32, 32)
ConeSideTriangles == FanAround(32, 0, 32)
ConeBaseTriangles == FanAround(33, 0, 32)

\* the faces, by position, that have n corners
FacesOfSize(n) == {k \in DOMAIN result.value.faces : Len(result.value.faces[k]) = n}
Corner(k) == Range(result.value.faces[k])

\* v lies on the circle of the given radius at height y, v on the axis at y
OnRing(v, radius, y) ==
    /\ v[1].mag = RealInt(radius) /\ Len(v[1].trig) = 1 /\ v[1].trig[1][1] = "cos"
    /\ v[3].mag = RealInt(radius) /\ Len(v[3].trig) = 1 /\ v[3].trig[1][1] = "sin"
    /\ v[1].trig[1][2] = v[3].trig[1][2] /\ v[1].trig[1][3] = v[3].trig[1][3]
    /\ v[2] = Plain(y)
OnAxis(v, y) == v = <<Plain(RealInt(0)), Plain(y), Plain(RealInt(0))>>

\* the angle of a ring vertex, in units of pi / m, within one turn
RingAngle(v) == v[1].trig[1][2] % (2 * v[1].trig[1][3])

\* C14: for every cylinder with positive radius and height: 66 vertices (32
\* on the top ring, 32 on the bottom ring, the top centre, the bottom
\* centre); 32 quad side faces, each two ring-adjacent top vertices with
\* their two bottom counterparts; 64 triangular cap faces, each two
\* ring-adjacent vertices of one ring with that ring's centre; every edge
\* joins two ring-adjacent vertices of one ring or a top vertex to its
\* bottom counterpart.
C14_CylinderMesh ==
    Called("cylinder") =>
        LET vs == result.value.vertices
            top == RealRat(shape.height, 2)
            bottom == RealRat(0 - shape.height, 2)
            quads == FacesOfSize(4)
            caps == FacesOfSize(3)
        IN  /\ Len(vs) = 66
            /\ \A i \in 1..32 : OnRing(vs[i], shape.radius, top)
            /\ \A i \in 33..64 : OnRing(vs[i], shape.radius, bottom)
            /\ \A i \in 1..32 : RingAngle(vs[i]) = RingAngle(vs[i + 32])
            /\ Cardinality({RingAngle(vs[i]) : i \in 1..32}) = 32
            /\ OnAxis(vs[65], top) /\ OnAxis(vs[66], bottom)
            /\ Len(result.value.faces) = 96
            /\ Cardinality(quads) = 32 /\ Cardinality(caps) = 64
            /\ Cardinality({Corner(k) : k \in quads}) = 32
            /\ Cardinality({Corner(k) : k \in caps}) = 64
            /\ \A k \in quads : Corner(k) \in CylinderSideQuads
            /\ \A k \in caps : Corner(k) \in CylinderCapTriangles
            /\ \A e \in Range(result.value.edges) :
                /\ Len(e) = 2
                /\ \/ RingAdjacent(e[1], e[2], 0, 32)
                   \/ RingAdjacent(e[1], e[2], 32, 32)
                   \/ e[1] \in 0..31 /\ e[2] = e[1] + 32

C14_Witness ==
    /\ Called("cylinder")
    /\ Len(result.value.vertices) = 66
    /\ \E k \in FacesOfSize(3) : Corner(k) = {63, 32, 65}
    /\ \E k \in FacesOfSize(4) : Corner(k) = {31, 0, 32, 63}

\* C15: for every cone with positive radius and height: 34 vertices (the
\* base ring of 32, the apex, the base centre); 32 triangular side faces,
\* each two ring-adjacent base vertices with the apex; 32 triangular base
\* faces, each two ring-adjacent base vertices with the base centre.
C15_ConeMesh ==
    Called("cone") =>
        LET vs == result.value.vertices
            top == RealRat(shape.height, 2)
            bottom == RealRat(0 - shape.height, 2)
            side == {k \in FacesOfSize(3) : 32 \in Corner(k)}
            base == {k \in FacesOfSize(3) : 33 \in Corner(k)}
        IN  /\ Len(vs) = 34
            /\ \A i \in 1..32 : OnRing(vs[i], shape.radius, bottom)
            /\ Cardinality({RingAngle(vs[i]) : i \in 1..32}) = 32
            /\ OnAxis(vs[33], top) /\ OnAxis(vs[34], bottom)
            /\ Len(result.value.faces) = 64
            /\ Cardinality(side) = 32 /\ Cardinality(base) = 32
            /\ Cardinality({Corner(k) : k \in side}) = 32
            /\ Cardinality({Corner(k) : k \in base}) = 32
            /\ \A k \in side : Corner(k) \in ConeSideTriangles
            /\ \A k \in base : Corner(k) \in ConeBaseTriangles

C15_Witness ==
    /\ Called("cone")
    /\ Len(result.value.vertices) = 34
    /\ \E k \in FacesOfSize(3) : Corner(k) = {31, 0, 33}
    /\ \E k \in FacesOfSize(3) : Corner(k) = {31, 0, 32}

\* the ring of a sphere vertex (phi in units of pi / 16) and its angular
\* position on that ring (theta in units of pi / 16, within one turn)
SpherePhi(v) == v[2].trig[1][2]
SphereTheta(v) == v[1].trig[2][2] % (2 * v[1].trig[2][3])

\* C16: the sphere has 16 rings and 16 segments: vertices at phi = i*pi/16,
\* i = 0..16, and at theta = 2*pi*j/16, j = 0..15, none at theta = 2*pi, so
\* that no ring holds two vertices at the same angular position; and one
\* quad face per pair of adjacent rings and adjacent segments, 256 faces.
C16_SphereTessellation ==
    Called("sphere") =>
        LET vs == result.value.vertices
        IN  /\ Len(vs) = 17 * 16
            /\ {SpherePhi(vs[k]) : k \in DOMAIN vs} = 0..16
            /\ \A a, b \in DOMAIN vs :
                (a # b /\ SpherePhi(vs[a]) = SpherePhi(vs[b]))
                    => SphereTheta(vs[a]) # SphereTheta(vs[b])
            /\ Len(result.value.faces) = 256
            /\ \A f \in Range(result.value.faces) : Len(f) = 4

\* C17: generateShape called with a type tag outside {box, cylinder, cone,
\* sphere} fails with an error and returns no geometry.
C17_UnknownTypeFails ==
    (call = "generateShape" /\ shape.type \notin ShapeTypes) =>
        /\ result.threw
        /\ "value" \notin DOMAIN result

C17_Witness ==
    /\ call = "generateShape"
    /\ shape.type = "torus"
    /\ AllPositive(shape)
    /\ result.threw
    /\ result.error = "Unknown shape type"

\* x = pi * (n / d): a rational multiple of pi, whatever the representation
IsPiTimes(x, n, d) == x.pi = 1 /\ x.sn = 0 /\ x.d > 0 /\ x.n * d = n * x.d

\* C18: for all positive radius r and height h: cylinder volume pi*r^2*h and
\* surfaceArea 2*pi*r*(r+h); cone volume pi*r^2*h/3 and surfaceArea
\* pi*r*(r + sqrt(r^2+h^2)); sphere volume 4/3*pi*r^3 and surfaceArea
\* 4*pi*r^2.
C18_CurvedMassProperties ==
    LET r == shape.radius
        v == result.value.volume
        a == result.value.surfaceArea
    IN  /\ Called("cylinder") =>
            /\ IsPiTimes(v, r * r * shape.height, 1)
            /\ IsPiTimes(a, 2 * r * r + 2 * r * shape.height, 1)
        /\ Called("cone") =>
            /\ IsPiTimes(v, r * r * shape.height, 3)
            \* pi * (r^2 + r * sqrt(r^2 + h^2))
            /\ a.pi = 1 /\ a.d = 1 /\ a.n = r * r
            /\ a.sn = r /\ a.sa = r * r + shape.height * shape.height
        /\ Called("sphere") =>
            /\ IsPiTimes(v, 4 * r * r * r, 3)
            /\ IsPiTimes(a, 4 * r * r, 1)

C18_Witness ==
    /\ Called("cone")
    /\ shape.radius = 3 /\ shape.height = 2
    /\ result.value.volume = [pi |-> 1, n |-> 6, d |-> 1, sn |-> 0, sa |-> 0]
    /\ result.value.surfaceArea.sa = 13

\* twice a rational coordinate, an integer for the halves of integers
Twice(c) == (2 * c.mag.n) \div c.mag.d

\* twice the vertex v of the returned mesh (v counted from 0)
Point(v) == [k \in 1..3 |-> Twice(result.value.vertices[v + 1][k])]

Minus(p, q) == [k \in 1..3 |-> p[k] - q[k]]
Cross(p, q) ==
    << p[2] * q[3] - p[3] * q[2],
       p[3] * q[1] - p[1] * q[3],
       p[1] * q[2] - p[2] * q[1] >>
Dot(p, q) == p[1] * q[1] + p[2] * q[2] + p[3] * q[3]

\* the normal of face f by its winding (right-hand rule on its first three
\* corners), and the direction from the solid's centre, the origin, to the
\* face (the sum of its four corners)
WindingNormal(f) ==
    Cross(Minus(Point(f[2]), Point(f[1])), Minus(Point(f[3]), Point(f[2])))
Outward(f) ==
    [k \in 1..3 |-> Point(f[1])[k] + Point(f[2])[k] + Point(f[3])[k] + Point(f[4])[k]]

\* C21: each of the 6 box faces lists its vertex indices counter-clockwise
\* as seen from outside the solid: the normal computed from the winding
\* points outward, for all positive dimensions.
C21_BoxFacesWoundOutward ==
    (BoxCall /\ shape.width > 0 /\ shape.height > 0 /\ shape.depth > 0) =>
        \A f \in Range(result.value.faces) : Dot(WindingNormal(f), Outward(f)) > 0

\* the sides of face f: the pairs of consecutive indices, the wrap-around
\* pair included, as unordered pairs
Sides(f) == {{f[k], f[(k % Len(f)) + 1]} : k \in 1..Len(f)}

\* C30: in the box mesh the 12 listed edges are pairwise distinct as
\* unordered pairs and are exactly the sides of the 6 faces; every edge is a
\* side of exactly two faces.
C30_BoxEdgesAreFaceSides ==
    BoxCall =>
        LET faces == result.value.faces
            edges == result.value.edges
            pairs == {{e[1], e[2]} : e \in Range(edges)}
        IN  /\ Len(edges) = 12
            /\ \A e \in Range(edges) : Len(e) = 2 /\ e[1] # e[2]
            /\ Cardinality(pairs) = 12
            /\ pairs = UNION {Sides(faces[k]) : k \in DOMAIN faces}
            /\ \A pair \in pairs :
                Cardinality({k \in DOMAIN faces : pair \in Sides(faces[k])}) = 2

C30_Witness ==
    /\ call = "generateBoxModel"
    /\ shape.width = 10 /\ shape.height = 20 /\ shape.depth = 30
    /\ Len(result.value.edges) = 12
    /\ {3, 7} \in Sides(result.value.faces[4])
    /\ {3, 7} \in Sides(result.value.faces[5])

(***************************************************************************)
(* Reading a document: it is a sequence of (group code, value) pairs of    *)
(* lines, and a pair whose code is 0 opens a record named by its value.    *)
(***************************************************************************)
Rendered == config # None

NPairs == Len(doc) \div 2
Code(k) == doc[2 * k - 1]
Value(k) == doc[2 * k]

IsRecord(k, name) == Code(k) = <<"0">> /\ Value(k) = <<name>>

PairIndex == [k \in 1..NPairs |-> k]

\* the pairs that open a record, and those that open a record named name,
\* in document order
Records == SelectSeq(PairIndex, LAMBDA k : Code(k) = <<"0">>)
RecordsNamedSeq(name) == SelectSeq(PairIndex, LAMBDA k : IsRecord(k, name))
RecordsNamed(name) == Range(RecordsNamedSeq(name))

\* the value of the pair after pair k when its group code is code
FieldAfter(k, code) ==
    IF k + 1 <= NPairs /\ Code(k + 1) = <<code>> THEN Value(k + 1) ELSE <<>>

\* the names of the records named name, in document order
NamesOf(name) ==
    LET at == RecordsNamedSeq(name)
    IN  [i \in DOMAIN at |-> FieldAfter(at[i], "2")]

\* C6: the document is exactly the four sections HEADER, TABLES, BLOCKS,
\* ENTITIES in this order, each opened by a SECTION record and closed by its
\* own ENDSEC record before the next opens, then a single EOF marker, the
\* last record; the BLOCKS section holds no record.
C6_SectionOrder ==
    Rendered =>
        LET open == RecordsNamedSeq("SECTION")
            close == RecordsNamedSeq("ENDSEC")
        IN  /\ Len(doc) % 2 = 0
            /\ Len(open) = 4 /\ Len(close) = 4
            /\ NamesOf("SECTION") = << <<"HEADER">>, <<"TABLES">>, <<"BLOCKS">>, <<"ENTITIES">> >>
            /\ open[1] = 1
            /\ \A i \in 1..4 : open[i] < close[i]
            /\ \A i \in 1..3 : close[i] + 1 = open[i + 1]
            /\ RecordsNamed("EOF") = {NPairs}
            /\ close[4] + 1 = NPairs
            /\ {k \in Range(Records) : open[3] < k /\ k < close[3]} = {}
            /\ close[3] = open[3] + 2

C6_Witness ==
    /\ Rendered
    /\ Cardinality(RecordsNamed("SECTION")) = 4
    /\ Cardinality(RecordsNamed("LINE")) > 0
    /\ IsRecord(NPairs, "EOF")

\* C7: the LAYER table lists exactly six layers, in the order DIMENSIONS,
\* GEOMETRY, CENTERLINES, HIDDEN, TEXT, TITLEBLOCK, each once, whatever the
\* config.
C7_LayerTable ==
    Rendered =>
        /\ NamesOf("LAYER") =
            << <<"DIMENSIONS">>, <<"GEOMETRY">>, <<"CENTERLINES">>,
               <<"HIDDEN">>, <<"TEXT">>, <<"TITLEBLOCK">> >>
        \* the LAYER records are those of the table named LAYER
        /\ LET tables == RecordsNamed("TABLE")
               ends == RecordsNamed("ENDTAB")
               records == RecordsNamed("LAYER")
           IN  \E t \in tables :
                /\ FieldAfter(t, "2") = <<"LAYER">>
                /\ \A k \in records :
                    /\ t < k
                    /\ \E e \in ends : k < e /\ tables \cap (t + 1)..e = {}

C7_Witness ==
    /\ Rendered
    /\ config.width < 0
    /\ Len(NamesOf("LAYER")) = 6
    /\ NamesOf("LAYER")[4] = <<"HIDDEN">>

LayerNames == Range(NamesOf("LAYER"))

\* C8: every LINE and every TEXT record of the ENTITIES section declares an
\* owning layer, one of the layers the document's layer table lists.
C8_EntityLayers ==
    Rendered =>
        LET listed == LayerNames
            entities == RecordsNamed("LINE") \cup RecordsNamed("TEXT")
            section == RecordsNamedSeq("SECTION")
        IN  /\ entities # {}
            /\ \A k \in entities :
                /\ k + 1 <= NPairs
                /\ Code(k + 1) = <<"8">>
                /\ Value(k + 1) \in listed
                /\ section[Len(section)] < k
            /\ FieldAfter(section[Len(section)], "2") = <<"ENTITIES">>

C8_Witness ==
    /\ Rendered
    /\ \E k \in RecordsNamed("TEXT") : Value(k + 1) = <<"DIMENSIONS">>
    /\ \E k \in RecordsNamed("LINE") : Value(k + 1) = <<"CENTERLINES">>
    /\ \E k \in RecordsNamed("TEXT") : Value(k + 1) = <<"TEXT">>

DigitChars == {"0", "1", "2", "3", "4", "5", "6", "7", "8", "9"}

\* an optional sign, one digit or more, a point, exactly three digits
ThreeDecimals(v) ==
    LET u == IF v # <<>> /\ v[1] = "-" THEN Tail(v) ELSE v
        n == Len(u)
    IN  /\ n >= 5
        /\ u[n - 3] = "."
        /\ \A i \in (1..n) \ {n - 3} : u[i] \in DigitChars

\* the fields of the LINE and TEXT records, each a pair <<owner, j>>: the
\* pairs j after the record's first and before the next record
EntityFields ==
    LET rs == Records
    IN  UNION {{<<rs[i], j>> : j \in (rs[i] + 1)..(rs[i + 1] - 1)} :
                i \in {i \in 1..(Len(rs) - 1) : Value(rs[i]) \in {<<"LINE">>, <<"TEXT">>}}}

CoordinateFields(codes) == {f[2] : f \in {f \in EntityFields : Code(f[2]) \in codes}}

XYCodes == {<<"10">>, <<"20">>, <<"11">>, <<"21">>}
ZCodes == {<<"30">>, <<"31">>}

C10_SameConfigSameDocument ==
    (Rendered /\ prevDoc # None /\ "date" \in DOMAIN config) => doc = prevDoc

(***************************************************************************)
(* Reading the TEXT records: a TEXT record is the seven pairs 0, 8, 10,    *)
(* 20, 30, 40, 1 and a LINE record the eight pairs 0, 8, 10, 20, 30, 11,   *)
(* 21, 31.  The text of a line is the concatenation of its tokens.         *)
(***************************************************************************)
RECURSIVE TextOf(_)
TextOf(line) == IF line = <<>> THEN "" ELSE Head(line) \o TextOf(Tail(line))

TextPairs == 7
LinePairs == 8

\* the payload of the TEXT record at pair k
Payload(k) ==
    IF k + 6 <= NPairs /\ Code(k + 6) = <<"1">> THEN TextOf(Value(k + 6)) ELSE ""

TextPayloads == {Payload(k) : k \in RecordsNamed("TEXT")}

\* the payloads of the TEXT records that follow a TEXT record labelled label
PayloadAfter(label) ==
    {Payload(k + TextPairs) :
        k \in {k \in RecordsNamed("TEXT") :
                 Payload(k) = label /\ k + TextPairs <= NPairs
                 /\ IsRecord(k + TextPairs, "TEXT")}}

\* C11: when modelName, author, units and scale are not supplied the engine
\* uses "Parametric Box", "Configurator", "mm" and 1: the title block's TEXT
\* records after TITLE:, AUTHOR: and SCALE: carry "Parametric Box",
\* "Configurator" and "1:1"; and for every config the ENTITIES section holds
\* TEXT records with the payloads FRONT VIEW, TOP VIEW and SIDE VIEW.
C11_DefaultsAndViewLabels ==
    Rendered =>
        /\ {"FRONT VIEW", "TOP VIEW", "SIDE VIEW"} \subseteq TextPayloads
        /\ ~Has(config, "modelName") => PayloadAfter("TITLE:") = {"Parametric Box"}
        /\ ~Has(config, "author") => PayloadAfter("AUTHOR:") = {"Configurator"}
        /\ ~Has(config, "scale") => PayloadAfter("SCALE:") = {"1:1"}
        /\ ~Has(config, "units") => Constructor(config, now).units = "mm"

C11_Witness ==
    /\ Rendered
    /\ config = CubeBox
    /\ PayloadAfter("TITLE:") = {"Parametric Box"}
    /\ PayloadAfter("AUTHOR:") = {"Configurator"}
    /\ "1:1" \in TextPayloads
    /\ "TOP VIEW" \in TextPayloads

\* the TEXT records of the dimension annotations, in document order
DimensionTexts ==
    SelectSeq(RecordsNamedSeq("TEXT"), LAMBDA k : Value(k + 1) = <<"DIMENSIONS">>)

IsInteger(x) == x % UnitsPerOne = 0

\* the dimension line of the annotation whose TEXT record is at pair k: the
\* first of the seven LINE records before it
DimensionLine(k) == k - 7 * LinePairs
IsHorizontal(l) == Value(l + 3) = Value(l + 6)
IsVertical(l) == Value(l + 2) = Value(l + 5)

\* C12: for integer width, height and depth the TEXT records of the
\* dimension annotations carry exactly the decimal value of the measured
\* dimension, no unit suffix: front horizontal width, front vertical height,
\* top horizontal width, top vertical depth, side horizontal depth.
C12_DimensionPayloads ==
    (Rendered /\ IsInteger(config.width) /\ IsInteger(config.height)
              /\ IsInteger(config.depth)) =>
        LET w == ToString(config.width \div UnitsPerOne)
            h == ToString(config.height \div UnitsPerOne)
            d == ToString(config.depth \div UnitsPerOne)
            at == DimensionTexts
        IN  /\ [i \in DOMAIN at |-> Payload(at[i])] = <<w, h, w, d, d>>
            /\ \A i \in {1, 3, 5} :
                IsRecord(DimensionLine(at[i]), "LINE") /\ IsHorizontal(DimensionLine(at[i]))
            /\ \A i \in {2, 4} :
                IsRecord(DimensionLine(at[i]), "LINE") /\ IsVertical(DimensionLine(at[i]))

C12_Witness ==
    /\ Rendered
    /\ config.width = U(10) /\ config.height = U(20) /\ config.depth = U(30)
    /\ Len(DimensionTexts) = 5
    /\ Payload(DimensionTexts[1]) = "10"
    /\ Payload(DimensionTexts[2]) = "20"
    /\ Payload(DimensionTexts[5]) = "30"

\* the records of document d in order, each with its name and with its
\* section name or owning layer
SkeletonOf(d) ==
    LET n == Len(d) \div 2
        at == SelectSeq([k \in 1..n |-> k], LAMBDA k : d[2 * k - 1] = <<"0">>)
    IN  [i \in DOMAIN at |->
            <<d[2 * at[i]],
              IF at[i] < n /\ d[2 * at[i] + 1] \in {<<"8">>, <<"2">>}
              THEN d[2 * at[i] + 2] ELSE <<>> >>]

PositiveSkeleton == SkeletonOf(generateEngineeringDrawing(CubeBox, 0))

\* C13: the engine is total: for any numeric width, height and depth, zero
\* and negative values included, it returns a well-formed document with the
\* same sections and the same sequence of record types and owning layers as
\* for positive dimensions.
C13_TotalSameStructure ==
    Rendered =>
        /\ Len(doc) % 2 = 0
        /\ SkeletonOf(doc) = PositiveSkeleton

C13_Witness ==
    /\ Rendered
    /\ config.width < 0 /\ config.height = 0 /\ config.depth < 0
    /\ SkeletonOf(doc) = PositiveSkeleton
    /\ Cardinality(RecordsNamed("LINE")) > 50

(***************************************************************************)
(* Reading the view rectangles: the LINE records on layer GEOMETRY are the *)
(* four sides of the front, the top and the side view, in this order.  A   *)
(* coordinate is read back from its text, in thousandths.                  *)
(***************************************************************************)
DigitValue(c) == CHOOSE d \in 0..9 : DigitChar(d) = c

RECURSIVE NumberOf(_)
NumberOf(ds) ==
    IF ds = <<>> THEN 0
    ELSE 10 * NumberOf(SubSeq(ds, 1, Len(ds) - 1)) + DigitValue(ds[Len(ds)])

\* the value, in thousandths, of a number printed with three decimals
Thousandths(v) ==
    LET u == IF v[1] = "-" THEN Tail(v) ELSE v
        n == NumberOf(SelectSeq(u, LAMBDA c : c # "."))
    IN  IF v[1] = "-" THEN 0 - n ELSE n

GeometryLines ==
    SelectSeq(RecordsNamedSeq("LINE"), LAMBDA k : Value(k + 1) = <<"GEOMETRY">>)

FrontView == 1
TopView == 2
SideView == 3

MinOf(S) == CHOOSE x \in S : \A y \in S : x <= y
MaxOf(S) == CHOOSE x \in S : \A y \in S : x >= y

\* the extent of a view's rectangle, from the end points of its four sides
\* among the GEOMETRY lines
Rectangle(lines, view) ==
    LET sides == {lines[i] : i \in (4 * view - 3)..(4 * view)}
        xs == UNION {{Thousandths(Value(k + 2)), Thousandths(Value(k + 5))} : k \in sides}
        ys == UNION {{Thousandths(Value(k + 3)), Thousandths(Value(k + 6))} : k \in sides}
    IN  [left |-> MinOf(xs), right |-> MaxOf(xs),
         bottom |-> MinOf(ys), top |-> MaxOf(ys)]

\* the two rectangles share a point
Overlap(a, b) ==
    /\ a.left <= b.right /\ b.left <= a.right
    /\ a.bottom <= b.top /\ b.bottom <= a.top

\* the printed coordinate p (thousandths) is the number x (1/2000), rounded
Prints(p, x) == Abs(2 * p - x) <= 1

PositiveBox ==
    Rendered /\ config.width > 0 /\ config.height > 0 /\ config.depth > 0

\* C19, as claimed: for all positive width, height and depth the top edge of
\* the top-view rectangle is exactly 50 units below the bottom edge of the
\* front-view rectangle, so that the two rectangles never overlap.
C19_TopViewGutter ==
    PositiveBox =>
        LET lines == GeometryLines
            front == Rectangle(lines, FrontView)
            top == Rectangle(lines, TopView)
        IN  /\ top.top = front.bottom - 50 * 1000
            /\ ~Overlap(top, front)

\* C19, amended: for all positive width, height and depth the top-view
\* rectangle lies at the absolute position y = -50: it spans y from -50 to
\* depth - 50 and the x range of the front-view rectangle, which spans y
\* from 50 - height/2 to 50 + height/2; the two rectangles overlap exactly
\* when height/2 + depth >= 100.
C19_TopViewAbsolute ==
    PositiveBox =>
        LET lines == GeometryLines
            front == Rectangle(lines, FrontView)
            top == Rectangle(lines, TopView)
        IN  /\ Len(lines) = 12
            /\ top.bottom = 0 - 50 * 1000
            /\ Prints(top.top, config.depth - U(50))
            /\ top.left = front.left /\ top.right = front.right
            /\ Prints(front.bottom, U(50) - HalfOf(config.height))
            /\ Prints(front.top, U(50) + HalfOf(config.height))
            /\ Overlap(top, front) <=> (HalfOf(config.height) + config.depth >= U(100))

\* a box whose top view runs into its front view
C19_Witness ==
    /\ PositiveBox
    /\ config = CubeBox
    /\ Rectangle(GeometryLines, FrontView).bottom = 0
    /\ Rectangle(GeometryLines, TopView).top = 50 * 1000
    /\ Overlap(Rectangle(GeometryLines, TopView), Rectangle(GeometryLines, FrontView))

\* C20, as claimed: for all positive width, height and depth the left edge
\* of the side-view rectangle lies to the right of the front view's right
\* edge (x = width/2), so that the two rectangles never overlap, and the
\* side view spans the vertical range of the front view.
C20_SideViewRightOfFront ==
    PositiveBox =>
        LET lines == GeometryLines
            front == Rectangle(lines, FrontView)
            side == Rectangle(lines, SideView)
        IN  /\ side.left > front.right
            /\ ~Overlap(side, front)
            /\ side.bottom = front.bottom /\ side.top = front.top

\* C20, amended: for all positive width, height and depth the side-view
\* rectangle lies at the absolute position x = 150: it spans x from 150 to
\* 150 + depth and the vertical range of the front-view rectangle, whose
\* right edge is at width/2; its left edge is to the right of the front
\* view, and the two rectangles do not overlap, exactly when width < 300.
C20_SideViewAbsolute ==
    PositiveBox =>
        LET lines == GeometryLines
            front == Rectangle(lines, FrontView)
            side == Rectangle(lines, SideView)
        IN  /\ Len(lines) = 12
            /\ side.left = 150 * 1000
            /\ Prints(side.right, U(150) + config.depth)
            /\ Prints(front.right, HalfOf(config.width))
            /\ side.bottom = front.bottom /\ side.top = front.top
            /\ (side.left > front.right) <=> (config.width < U(300))
            /\ Overlap(side, front) <=> (config.width >= U(300))

\* a box whose front view runs into its side view
C20_Witness ==
    /\ PositiveBox
    /\ config = WideBox
    /\ Rectangle(GeometryLines, FrontView).right = 200 * 1000
    /\ Rectangle(GeometryLines, SideView).left = 150 * 1000
    /\ Overlap(Rectangle(GeometryLines, SideView), Rectangle(GeometryLines, FrontView))

\* the end points of the LINE record at pair k, in thousandths
LineStart(k) == <<Thousandths(Value(k + 2)), Thousandths(Value(k + 3))>>
LineEnd(k) == <<Thousandths(Value(k + 5)), Thousandths(Value(k + 6))>>

\* the printed point p is the point (x, y) (1/2000), rounded
PrintsPoint(p, x, y) == Prints(p[1], x) /\ Prints(p[2], y)

\* the four GEOMETRY lines of a view are a closed path through the corners
\* (x, y), (x + w, y), (x + w, y + h), (x, y + h)
Outline(lines, view, x, y, w, h) ==
    LET side(i) == lines[4 * (view - 1) + i]
    IN  /\ \A i \in 1..3 : LineEnd(side(i)) = LineStart(side(i + 1))
        /\ LineEnd(side(4)) = LineStart(side(1))
        /\ PrintsPoint(LineStart(side(1)), x, y)
        /\ PrintsPoint(LineStart(side(2)), x + w, y)
        /\ PrintsPoint(LineStart(side(3)), x + w, y + h)
        /\ PrintsPoint(LineStart(side(4)), x, y + h)

\* C22: each view outline is exactly four LINE records on layer GEOMETRY
\* forming a closed rectangle (each line starts where the previous one ends,
\* the last ends at the first corner): the front view from x = -width/2 to
\* width/2 and from y = 50 - height/2 to 50 + height/2, the top view of
\* extents width x depth, the side view of extents depth x height.
C22_ViewOutlines ==
    Rendered =>
        LET lines == GeometryLines
            width == config.width
            height == config.height
            depth == config.depth
        IN  /\ Len(lines) = 12
            /\ Outline(lines, FrontView, 0 - HalfOf(width), U(50) - HalfOf(height),
                       width, height)
            /\ PrintsPoint(LineStart(lines[3]), HalfOf(width), U(50) + HalfOf(height))
            /\ Outline(lines, TopView, 0 - HalfOf(width), U(0 - 50), width, depth)
            /\ Outline(lines, SideView, U(150), U(50) - HalfOf(height), depth, height)

C22_Witness ==
    /\ Rendered
    /\ config.width = U(10) /\ config.height = U(20) /\ config.depth = U(30)
    /\ Len(GeometryLines) = 12
    /\ LineStart(GeometryLines[1]) = <<0 - 5000, 40000>>
    /\ LineStart(GeometryLines[3]) = <<5000, 60000>>
    /\ LineEnd(GeometryLines[4]) = <<0 - 5000, 40000>>
    /\ LineStart(GeometryLines[11]) = <<180000, 60000>>

(***************************************************************************)
(* Reading the dimension annotations: the records on layer DIMENSIONS, the *)
(* lines of an annotation before its TEXT record.  The annotations are, in *)
(* order, the front view's horizontal and vertical one, the top view's     *)
(* horizontal and vertical one and the side view's horizontal one.         *)
(***************************************************************************)
DimensionLines ==
    SelectSeq(RecordsNamedSeq("LINE"), LAMBDA k : Value(k + 1) = <<"DIMENSIONS">>)

\* the lines of annotation i: those after the TEXT record of annotation
\* i - 1 and before its own
AnnotationLines(lines, texts, i) ==
    SelectSeq(lines, LAMBDA k : k < texts[i] /\ (i = 1 \/ texts[i - 1] < k))

\* the view annotation i measures, the axis it measures along (1 for x, 2
\* for y) and the value it measures
MeasuredView(i) == <<FrontView, FrontView, TopView, TopView, SideView>>[i]
MeasuredAxis(i) == <<1, 2, 1, 2, 1>>[i]
MeasuredValue(i) ==
    <<config.width, config.height, config.width, config.depth, config.depth>>[i]

\* a stroke runs along neither axis
IsStroke(k) ==
    LineStart(k)[1] # LineEnd(k)[1] /\ LineStart(k)[2] # LineEnd(k)[2]

\* the printed point p lies at (along, across) (1/2000) from the printed
\* point a, along the axis and across it, up to the rounding of both
OffsetIs(p, a, axis, along, across) ==
    /\ Abs(2 * (p[axis] - a[axis]) - along) <= 2
    /\ Abs(2 * (p[3 - axis] - a[3 - axis]) - across) <= 2

\* line k runs from offset (s1, s2) to offset (e1, e2) from a
LineIs(k, a, axis, s1, s2, e1, e2) ==
    /\ OffsetIs(LineStart(k), a, axis, s1, s2)
    /\ OffsetIs(LineEnd(k), a, axis, e1, e2)

\* the dimension line, the two extension lines and the label of annotation
\* i, whose lines are ls and whose TEXT record is at pair t
AnnotationFrame(geometry, ls, t, i) ==
    LET axis == MeasuredAxis(i)
        length == MeasuredValue(i)
        first == geometry[4 * (MeasuredView(i) - 1) + 1]
        opposite == geometry[4 * (MeasuredView(i) - 1) + 2 * axis]
        a == LineStart(ls[1])
        b == LineEnd(ls[1])
    IN  \* the dimension line: as long as the value, from edge to edge
        /\ LineIs(ls[1], a, axis, 0, 0, length, 0)
        /\ a[3 - axis] = b[3 - axis]
        /\ a[axis] = LineStart(first)[axis]
        /\ b[axis] = LineStart(opposite)[axis]
        \* the extension lines: across the axis, one through each end
        /\ LineIs(ls[2], a, axis, 0, U(0 - 5), 0, U(5))
        /\ LineIs(ls[3], a, axis, length, U(0 - 5), length, U(5))
        /\ LineStart(ls[2])[axis] = a[axis] /\ LineEnd(ls[2])[axis] = a[axis]
        /\ LineStart(ls[3])[axis] = b[axis] /\ LineEnd(ls[3])[axis] = b[axis]
        /\ ~IsStroke(ls[1]) /\ ~IsStroke(ls[2]) /\ ~IsStroke(ls[3])
        \* the label, and nothing but records of the layer in between
        /\ Payload(t) # ""
        /\ \A j \in 1..Len(ls) : ls[j] = t - (Len(ls) + 1 - j) * LinePairs

\* C23, as claimed: every dimension annotation is one dimension line as long
\* as the measured value, from edge to edge of the rectangle it measures,
\* two extension lines across it, one at each end, four arrow strokes at
\* each end and one label, all on layer DIMENSIONS, the same for both axes.
C23_FourStrokesAtEachEnd ==
    Rendered =>
        LET geometry == GeometryLines
            lines == DimensionLines
            texts == DimensionTexts
        IN  /\ Len(texts) = 5
            /\ \A i \in 1..5 :
                LET ls == AnnotationLines(lines, texts, i)
                    strokes == {j \in 1..Len(ls) : IsStroke(ls[j])}
                IN  /\ Len(ls) >= 3
                    /\ AnnotationFrame(geometry, ls, texts[i], i)
                    /\ Cardinality({j \in strokes : LineStart(ls[j]) = LineStart(ls[1])}) = 4
                    /\ Cardinality({j \in strokes : LineStart(ls[j]) = LineEnd(ls[1])}) = 4

\* C23, amended: every dimension annotation is one dimension line as long as
\* the measured value, from edge to edge of the rectangle it measures, two
\* extension lines across it, one at each end, four arrow strokes in all,
\* two from each end, and one label, all on layer DIMENSIONS; the seven
\* lines of the vertical variant are those of the horizontal one with the
\* axes exchanged.
C23_TwoStrokesAtEachEnd ==
    Rendered =>
        LET geometry == GeometryLines
            lines == DimensionLines
            texts == DimensionTexts
        IN  /\ Len(texts) = 5
            /\ Len(lines) = 5 * 7
            /\ \A i \in 1..5 :
                LET ls == AnnotationLines(lines, texts, i)
                    axis == MeasuredAxis(i)
                    length == MeasuredValue(i)
                    a == LineStart(ls[1])
                IN  /\ Len(ls) = 7
                    /\ AnnotationFrame(geometry, ls, texts[i], i)
                    /\ {j \in 1..7 : IsStroke(ls[j])} = 4..7
                    /\ LineIs(ls[4], a, axis, 0, 0, U(5), U(2))
                    /\ LineIs(ls[5], a, axis, 0, 0, U(5), U(0 - 2))
                    /\ LineIs(ls[6], a, axis, length, 0, length - U(5), U(2))
                    /\ LineIs(ls[7], a, axis, length, 0, length - U(5), U(0 - 2))
                    /\ LineStart(ls[4]) = a /\ LineStart(ls[5]) = a
                    /\ LineStart(ls[6]) = LineEnd(ls[1])
                    /\ LineStart(ls[7]) = LineEnd(ls[1])

\* the top view's vertical annotation of the 10 x 20 x 30 box: from
\* (25, -50) up to (25, -20), its first stroke to (27, -45)
C23_Witness ==
    /\ Rendered
    /\ config.width = U(10) /\ config.height = U(20) /\ config.depth = U(30)
    /\ Len(DimensionTexts) = 5
    /\ LET ls == AnnotationLines(DimensionLines, DimensionTexts, 4)
       IN  /\ Len(ls) = 7
           /\ LineStart(ls[1]) = <<25000, 0 - 50000>>
           /\ LineEnd(ls[1]) = <<25000, 0 - 20000>>
           /\ LineEnd(ls[4]) = <<27000, 0 - 45000>>
           /\ Cardinality({j \in 1..7 : IsStroke(ls[j]) /\ LineStart(ls[j]) = LineEnd(ls[1])}) = 2

\* C26: a metadata field takes its default only when it is absent: a
\* modelName, author, date, units or scale the config supplies, the empty
\* string and the scale 0 included, is used as given in the title block.
C26_SuppliedValueUsed ==
    Rendered =>
        /\ Has(config, "modelName") => PayloadAfter("TITLE:") = {config.modelName}
        /\ Has(config, "author") => PayloadAfter("AUTHOR:") = {config.author}
        /\ Has(config, "date") => PayloadAfter("DATE:") = {config.date}
        /\ Has(config, "scale") =>
            PayloadAfter("SCALE:") = {"1:" \o TextOf(NumberToString(config.scale))}
        /\ Has(config, "units") => Constructor(config, now).units = config.units

\* C27: in the TABLES section the entry count declared in each table header
\* (group code 70 after the table's name) equals the number of records of
\* that table, for the LTYPE table and for the LAYER table.
C27_TableCounts ==
    Rendered =>
        LET records == Range(Records)
            ends == RecordsNamed("ENDTAB")
        IN  \A t \in RecordsNamed("TABLE") :
                LET end == MinOf({e \in ends : e > t})
                    entries == {k \in records : t < k /\ k < end}
                IN  /\ FieldAfter(t, "2") \in {<<"LTYPE">>, <<"LAYER">>}
                    /\ Code(t + 2) = <<"70">>
                    /\ TextOf(Value(t + 2)) = ToString(Cardinality(entries))

(***************************************************************************)
(* Claims about the request handlers                                       *)
(***************************************************************************)
\* the dimensions a shape of the type must carry
RequiredKeys(type) ==
    CASE type = "box" -> {"width", "height", "depth"}
      [] type \in {"cylinder", "cone"} -> {"radius", "height"}
      [] type = "sphere" -> {"radius"}
      [] OTHER -> {}

\* one of the keys is missing from o, or is zero or negative
Deficient(o, keys) == \E key \in keys : ~Has(o, key) \/ o[key] <= 0

\* the shape is missing or untyped, or a required dimension is deficient
Malformed(body) ==
    \/ ~Has(body, "shape")
    \/ ~Has(body.shape, "type")
    \/ Deficient(body.shape, RequiredKeys(body.shape.type))

Untouched(r) ==
    /\ requests[r].calls = <<>>
    /\ \A c \in saved : c.by # r

C25_DxfDimensionsValidated ==
    \A r \in RequestIds :
        /\ requests[r].route \in {"export", "legacy"}
        /\ requests[r].format = "dxf"
        /\ Deficient(requests[r].body, {"width", "height", "depth"})
        => requests[r].status = 400 /\ requests[r].calls = <<>>

\* C28: every saved configuration whose request has been answered belongs
\* to a request answered with success true.
C28_SavedOnlyOnSuccess ==
    \A c \in saved : requests[c.by].pc = "done" => requests[c.by].success

InFlight(r) == requests[r].pc \in {"kernel", "reading"}

\* C29: two requests in flight at once hold different model ids, and a
\* file sent to a request is the file written for it.
C29_DistinctModelIds ==
    /\ \A r, q \in RequestIds :
        r # q /\ InFlight(r) /\ InFlight(q) => requests[r].modelId # requests[q].modelId
    /\ \A r \in RequestIds :
        requests[r].pc = "done" /\ requests[r].sent # <<>> /\ requests[r].sent[1] = "file"
            => requests[r].sent[2] = r

=============================================================================
